---- MODULE Spec2Model ----
(***************************************************************************)
(* Chat-with-Sql-DB (src/app.py): the connection subsystem (factory,       *)
(* credential validation, cached handle with a time-to-live) and the chat  *)
(* transcript, as a state machine.  One script run of the application is    *)
(* SQLChatApp() followed by app.run(); the position of the run is pc.       *)
(***************************************************************************)
EXTENDS Integers, Sequences, FiniteSets, TLC

(***************************************************************************)
(* Bounds of the model.                                                     *)
(***************************************************************************)
\* ages (in half hours) past MaxAge are kept at MaxAge: the cache only
\* compares an age with TTL
MaxAge == 5
\* engines created over a behaviour
MaxConnects == 2
\* queries submitted since the last clear
MaxQueries == 2
\* the same, where time passes too (SpecFailure)
MaxFailureQueries == 1

(***************************************************************************)
(* Program constants.                                                       *)
(***************************************************************************)
\* @st.cache_resource(ttl='2h'), in half hours
TTL == 4

LOCALDB == "USE_LOCALDB"
MYSQL == "USE_MYSQL"
POSTGRES == "USE_POSTGRES"

Fields == {"host", "user", "password", "database"}

\* Python's None and a present str value: Optional[str] as a sequence of
\* length 0 or 1
None == <<>>
Some(s) == <<s>>

\* truth value of an Optional[str], as all([...]) tests it
Truthy(o) == o # None /\ o[1] # ""

\* what an f-string prints for an Optional[str]
Format(o) == IF o = None THEN "None" ELSE o[1]

\* kwargs.get(k)
Get(kwargs, k) == IF k \in DOMAIN kwargs THEN Some(kwargs[k]) ELSE None

NoException == [type |-> "", msg |-> ""]
Exception(t, m) == [type |-> t, msg |-> m]

(***************************************************************************)
(* Connection objects and the factory.                                      *)
(***************************************************************************)
DbFilePath == "student.db"

SQLiteConnection ==
    [cls |-> "SQLiteConnection", host |-> None, user |-> None,
     password |-> None, database |-> None]

MySQLConnection(host, user, password, database) ==
    [cls |-> "MySQLConnection", host |-> host, user |-> user,
     password |-> password, database |-> database]

PostgreSQLConnection(host, user, password, database) ==
    [cls |-> "PostgreSQLConnection", host |-> host, user |-> user,
     password |-> password, database |-> database]

\* the result of DatabaseFactory.create_connection: the connection object,
\* or the ValueError of an unsupported type
DatabaseFactory_create_connection(db_type, kwargs) ==
    IF db_type = LOCALDB
    THEN [raised |-> NoException, value |-> SQLiteConnection]
    ELSE IF db_type = MYSQL
    THEN [raised |-> NoException,
          value |-> MySQLConnection(Get(kwargs, "host"), Get(kwargs, "user"),
                                    Get(kwargs, "password"), Get(kwargs, "database"))]
    ELSE IF db_type = POSTGRES
    THEN [raised |-> NoException,
          value |-> PostgreSQLConnection(Get(kwargs, "host"), Get(kwargs, "user"),
                                         Get(kwargs, "password"), Get(kwargs, "database"))]
    ELSE [raised |-> Exception("ValueError", "Unsupported database type: " \o db_type),
          value |-> SQLiteConnection]

SQLiteConnection_validate_credentials(self) == TRUE

\* a variant that accepts any one field
MySQLConnection_validate_credentials_anyfield(self) ==
    Truthy(self.host) \/ Truthy(self.user) \/ Truthy(self.password) \/ Truthy(self.database)

MySQLConnection_validate_credentials(self) ==
    Truthy(self.host) /\ Truthy(self.user) /\ Truthy(self.password) /\ Truthy(self.database)

PostgreSQLConnection_validate_credentials(self) ==
    Truthy(self.host) /\ Truthy(self.user) /\ Truthy(self.password) /\ Truthy(self.database)

\* connection.validate_credentials(), dispatched on the object's class
validate_credentials(self) ==
    IF self.cls = "SQLiteConnection" THEN SQLiteConnection_validate_credentials(self)
    ELSE IF self.cls = "MySQLConnection" THEN MySQLConnection_validate_credentials(self)
    ELSE PostgreSQLConnection_validate_credentials(self)

\* a variant that opens the file for writing
SQLiteURI_writable(self) == [file |-> DbFilePath, mode |-> "rwc"]

\* the URI the creator opens: file:{db_file_path}?mode=ro
SQLiteURI(self) == [file |-> DbFilePath, mode |-> "ro"]

MySQLConnection_connection_string(self) ==
    "mysql+mysqlconnector://" \o Format(self.user) \o ":" \o Format(self.password)
        \o "@" \o Format(self.host) \o "/" \o Format(self.database)

\* a variant that inserts the port 5432
PostgreSQLConnection_connection_string_port(self) ==
    "postgresql+psycopg2://" \o Format(self.user) \o ":" \o Format(self.password)
        \o "@" \o Format(self.host) \o ":5432/" \o Format(self.database)

PostgreSQLConnection_connection_string(self) ==
    "postgresql+psycopg2://" \o Format(self.user) \o ":" \o Format(self.password)
        \o "@" \o Format(self.host) \o "/" \o Format(self.database)

\* what create_engine and SQLDatabase(...) can do: "ok"; "engine_error",
\* create_engine raises and no engine exists; "database_error", the engine
\* exists and SQLDatabase(engine) raises while inspecting the database
ConnOutcomes == {"ok", "engine_error", "database_error"}

ConnDetail(outcome) ==
    IF outcome = "engine_error" THEN "Could not parse SQLAlchemy URL"
    ELSE "unable to open database"

ConnLabel(self) ==
    IF self.cls = "SQLiteConnection" THEN "SQLite"
    ELSE IF self.cls = "MySQLConnection" THEN "MySQL"
    ELSE "PostgreSQL"

\* the engine create_engine builds: its target and whether its connections
\* can write
Engine(self, id) ==
    IF self.cls = "SQLiteConnection"
    THEN [id |-> id, dialect |-> "sqlite", target |-> SQLiteURI(self).file,
          read_only |-> SQLiteURI(self).mode = "ro"]
    ELSE IF self.cls = "MySQLConnection"
    THEN [id |-> id, dialect |-> "mysql",
          target |-> MySQLConnection_connection_string(self), read_only |-> FALSE]
    ELSE [id |-> id, dialect |-> "postgresql",
          target |-> PostgreSQLConnection_connection_string(self), read_only |-> FALSE]

NoHandle == [id |-> 0, dialect |-> "", target |-> "", read_only |-> FALSE]

\* connection.create_connection() of the three classes: try: SQLDatabase(
\* create_engine(...)) except Exception: raise ConnectionError.  opened is the
\* set of engines the call created and left undisposed: no path calls
\* engine.dispose().  calls lists the methods of the connection object that
\* ran, in order.
create_connection(self, outcome, id) ==
    IF outcome = "ok"
    THEN [raised |-> NoException, value |-> Engine(self, id), opened |-> {id},
          calls |-> <<"create_connection">>]
    ELSE [raised |-> Exception("ConnectionError",
                        "Failed to connect to " \o ConnLabel(self) \o " database: "
                            \o ConnDetail(outcome)),
          value |-> NoHandle,
          opened |-> IF outcome = "database_error" THEN {id} ELSE {},
          calls |-> <<"create_connection">>]

NotConnected(exception, calls) ==
    [raised |-> exception, value |-> NoHandle, opened |-> {}, calls |-> calls]

\* a variant that connects without validating
validate_and_connect_unchecked(connection, outcome, id) ==
    IF connection.raised # NoException
    THEN NotConnected(connection.raised, <<>>)
    ELSE create_connection(connection.value, outcome, id)

\* _create_database_connection without its decorator, from the connection
\* object the factory returned: validate, then connect
validate_and_connect(connection, outcome, id) ==
    IF connection.raised # NoException
    THEN NotConnected(connection.raised, <<>>)
    ELSE IF ~validate_credentials(connection.value)
    THEN NotConnected(Exception("ValueError", "Invalid database credentials"),
                      <<"validate_credentials=False">>)
    ELSE [create_connection(connection.value, outcome, id)
            EXCEPT !.calls = <<"validate_credentials=True">> \o @]

create_database_connection(db_type, credentials, outcome, id) ==
    validate_and_connect(DatabaseFactory_create_connection(db_type, credentials),
                         outcome, id)

(***************************************************************************)
(* st.cache_resource(ttl='2h'): entries keyed by the hashed arguments       *)
(* (db_type, credentials; _self is not hashed), each with the handle and    *)
(* its age, the time since it was stored.  An entry is found while its age  *)
(* is less than TTL; a raised exception stores nothing.                     *)
(***************************************************************************)
CacheKey(db_type, credentials) == <<db_type, credentials>>

\* a variant whose entries never expire
cache_has_no_ttl(entries, key) == key \in DOMAIN entries

cache_has(entries, key) ==
    key \in DOMAIN entries /\ entries[key].age < TTL

cache_store(entries, key, handle) ==
    [k \in DOMAIN entries \cup {key} |->
        IF k = key THEN [handle |-> handle, age |-> 0] ELSE entries[k]]

\* a variant that stores the result of a failed call too
cache_miss_stores_error(entries, key, r) ==
    [raised |-> r.raised, value |-> r.value, calls |-> r.calls, opened |-> r.opened,
     event |-> "miss", cache |-> cache_store(entries, key, r.value)]

\* what the decorator does with the body's result r on a miss: a returned
\* value is stored, a raised exception is not
cache_miss(entries, key, r) ==
    [raised |-> r.raised, value |-> r.value, calls |-> r.calls, opened |-> r.opened,
     event |-> "miss",
     cache |-> IF r.raised = NoException
               THEN cache_store(entries, key, r.value)
               ELSE entries]

cache_hit(entries, key) ==
    [raised |-> NoException, value |-> entries[key].handle, calls |-> <<>>,
     opened |-> {}, event |-> "hit", cache |-> entries]

\* the decorated method, as _initialize_components calls it
cached_create_database_connection(entries, db_type, credentials, outcome, id) ==
    IF cache_has(entries, CacheKey(db_type, credentials))
    THEN cache_hit(entries, CacheKey(db_type, credentials))
    ELSE cache_miss(entries, CacheKey(db_type, credentials),
                    create_database_connection(db_type, credentials, outcome, id))

(***************************************************************************)
(* LLMManager.  The API key is a sequence of characters, since strip()      *)
(* reads them.                                                              *)
(***************************************************************************)
Whitespace == {" ", "\t", "\n"}

RECURSIVE lstrip(_)
lstrip(s) == IF s # <<>> /\ Head(s) \in Whitespace THEN lstrip(Tail(s)) ELSE s

RECURSIVE rstrip(_)
rstrip(s) ==
    IF s # <<>> /\ s[Len(s)] \in Whitespace THEN rstrip(SubSeq(s, 1, Len(s) - 1)) ELSE s

strip(s) == rstrip(lstrip(s))

\* bool(self.api_key and self.api_key.strip())
LLMManager_validate_api_key(api_key) == api_key # <<>> /\ strip(api_key) # <<>>

LlmOutcomes == {"ok", "error"}

NoLLM == [api_key |-> <<>>, model_name |-> ""]

\* the llm property: _create_llm on first access; ChatGroq(...) may raise
LLMManager_llm(api_key, outcome) ==
    IF outcome = "ok"
    THEN [raised |-> NoException,
          value |-> [api_key |-> api_key, model_name |-> "Llama3-8b-8192"]]
    ELSE [raised |-> Exception("RuntimeError",
                        "Failed to initialize Groq LLM: " \o "client rejected the arguments"),
          value |-> NoLLM]

NoAgent == [database |-> NoHandle, llm |-> NoLLM]

\* _initialize_components after the cached connection returned database: the
\* LLM manager, the agent
initialize_llm_and_agent(database, api_key, llm) ==
    IF database.raised # NoException
    THEN database @@ [sql_agent |-> NoAgent]
    ELSE IF ~LLMManager_validate_api_key(api_key)
    THEN [database EXCEPT !.raised = Exception("ValueError", "Invalid API key")]
            @@ [sql_agent |-> NoAgent]
    ELSE IF llm.raised # NoException
    THEN [database EXCEPT !.raised = llm.raised] @@ [sql_agent |-> NoAgent]
    ELSE database @@ [sql_agent |-> [database |-> database.value, llm |-> llm.value]]

\* _initialize_components: raised, the agent, and what the cached call did
\* (value, the handle it returned; cache; calls; opened; event)
initialize_components(entries, db_type, db_credentials, api_key, conn_outcome, llm_outcome, id) ==
    initialize_llm_and_agent(
        cached_create_database_connection(entries, db_type, db_credentials,
                                          conn_outcome, id),
        api_key, LLMManager_llm(api_key, llm_outcome))

(***************************************************************************)
(* SQLAgent.                                                                *)
(***************************************************************************)
\* what the agent does with a query: "answer", it reads and answers;
\* "write", the statement it runs writes to the database; "agent_error",
\* create_sql_agent raises on first access; "run_error", agent.run raises
ExecOutcomes == {"answer", "write", "agent_error", "run_error"}

\* the body of run_query's try: self.agent.run(query, callbacks=[...]).
\* wrote: a write reached the database of the handle.
agent_run(self, query, outcome) ==
    IF outcome = "agent_error"
    THEN [raised |-> Exception("ValueError", "agent could not be created"),
          value |-> "", wrote |-> FALSE]
    ELSE IF outcome = "run_error"
    THEN [raised |-> Exception("RuntimeError", "model request failed"),
          value |-> "", wrote |-> FALSE]
    ELSE IF outcome = "write"
    THEN IF self.database.read_only
         THEN [raised |-> Exception("OperationalError",
                                    "attempt to write a readonly database"),
               value |-> "", wrote |-> FALSE]
         ELSE [raised |-> NoException, value |-> "Done.", wrote |-> TRUE]
    ELSE [raised |-> NoException, value |-> "There are 6 students.", wrote |-> FALSE]

\* a variant without the except clause
SQLAgent_run_query_uncaught(self, query, outcome) == agent_run(self, query, outcome)

\* run_query: except Exception as e: return f"Error executing query: {str(e)}"
SQLAgent_run_query(self, query, outcome) ==
    LET r == agent_run(self, query, outcome)
    IN  IF r.raised # NoException
        THEN [raised |-> NoException,
              value |-> "Error executing query: " \o r.raised.msg, wrote |-> FALSE]
        ELSE r

(***************************************************************************)
(* ChatInterface and the sidebar.                                           *)
(***************************************************************************)
Greeting == [role |-> "assistant", content |-> "Hello! How can I help you?"]

\* a variant that ignores the clear button
ChatInterface_initialize_session_keep(in_session, transcript, button) ==
    IF ~in_session THEN <<Greeting>> ELSE transcript

\* _initialize_session: the transcript after it, given whether the key is in
\* st.session_state and whether the clear button was pressed
ChatInterface_initialize_session(in_session, transcript, button) ==
    IF ~in_session \/ button THEN <<Greeting>> ELSE transcript

\* a variant that inserts at the front
add_message_front(transcript, role, content) ==
    <<[role |-> role, content |-> content]>> \o transcript

add_message(transcript, role, content) ==
    Append(transcript, [role |-> role, content |-> content])

\* the values a sidebar text input of a database backend returns
BaseCredentials == [host |-> "h", user |-> "u", password |-> "p", database |-> "d"]

CredentialInputs ==
    {BaseCredentials} \cup { [BaseCredentials EXCEPT ![e] = ""] : e \in Fields }

\* the values of the API key input
ApiKeyInputs == {<<>>, <<" ">>, <<"g", "k">>}

\* the sidebar: the radio's index, the credential inputs of the selected
\* backend (none for SQLite) and the API key
Widgets ==
    { [db_type_index |-> i, credentials |-> c, api_key |-> k] :
        i \in 1..2, c \in CredentialInputs, k \in ApiKeyInputs }
    \cup
    { [db_type_index |-> 0, credentials |-> [f \in {} |-> ""], api_key |-> k] :
        k \in ApiKeyInputs }

Queries == {"How many students are in Data Science class?"}

\* _get_database_config
get_database_config(db_type_index, credentials) ==
    IF db_type_index = 1 THEN [db_type |-> MYSQL, credentials |-> credentials]
    ELSE IF db_type_index = 2 THEN [db_type |-> POSTGRES, credentials |-> credentials]
    ELSE [db_type |-> LOCALDB, credentials |-> [f \in {} |-> ""]]

InfoApiKey == "Please enter the Groq api key."
InfoCredentials == "Please enter all database connection details."

\* _validate_inputs: the result and the message show_info displays
validate_inputs(api_key, db_credentials) ==
    IF api_key = <<>> THEN [ok |-> FALSE, info |-> InfoApiKey]
    ELSE IF DOMAIN db_credentials # {}
            /\ \E f \in DOMAIN db_credentials : db_credentials[f] = ""
    THEN [ok |-> FALSE, info |-> InfoCredentials]
    ELSE [ok |-> TRUE, info |-> ""]

(***************************************************************************)
(* State.                                                                   *)
(***************************************************************************)
VARIABLES
    widgets,              \* the sidebar's values, kept by the session
    clear_button_rendered,\* the page shows "Clear message history"
    chat_input_rendered,  \* the page shows the chat input
    clear_pressed,        \* this run was triggered by the clear button
    user_query,           \* what st.chat_input returns in this run
    pc,                   \* "idle", "constructed" (SQLChatApp() done), "query"
    has_messages,         \* "messages" in st.session_state
    messages,             \* st.session_state["messages"]
    cache,                \* the entries of st.cache_resource, each with its age
    next_id,              \* identity of the next engine
    engines,              \* engines created and not disposed
    run,                  \* what the last run displayed and called
    last_call,            \* the last call of the cached method that returned
    sql_agent,            \* self.sql_agent
    student_db,           \* the content of student.db
    remote_written,       \* a write reached a MySQL/PostgreSQL server
    uncaught,             \* an exception that left the script
    fn_in,                \* arguments of a direct call of the factory
    fn_out                \* its results

vars == <<widgets, clear_button_rendered, chat_input_rendered, clear_pressed,
          user_query, pc, has_messages, messages, cache, next_id, engines,
          run, last_call, sql_agent, student_db, remote_written, uncaught, fn_in,
          fn_out>>

NoRun == [outcome |-> "", shown |-> "", level |-> "", calls |-> <<>>, event |-> "",
          opened |-> {}, database |-> NoHandle]

NoLastCall == [key |-> <<>>, age |-> 0, handle |-> NoHandle]

NoCall == [db_type |-> "", kwargs |-> [f \in {} |-> ""]]
NoResult == [applied |-> FALSE, valid |-> FALSE, target |-> ""]

AppInit ==
    /\ widgets = [db_type_index |-> 0, credentials |-> [f \in {} |-> ""], api_key |-> <<>>]
    /\ clear_button_rendered = FALSE
    /\ chat_input_rendered = FALSE
    /\ clear_pressed = FALSE
    /\ user_query = None
    /\ pc = "idle"
    /\ has_messages = FALSE
    /\ messages = <<>>
    /\ cache = [k \in {} |-> 0]
    /\ next_id = 1
    /\ engines = {}
    /\ run = NoRun
    /\ last_call = NoLastCall
    /\ sql_agent = NoAgent
    /\ student_db = "seeded"
    /\ remote_written = FALSE
    /\ uncaught = NoException

Init ==
    /\ AppInit
    /\ fn_in = NoCall
    /\ fn_out = NoResult

UserTurns(transcript) ==
    Cardinality({i \in 1..Len(transcript) : transcript[i].role = "user"})

\* A script run starts: SQLChatApp.__init__, with the widget that triggered it.
\* One widget triggers a run: the sidebar (w), the clear button, or the chat
\* input (query); the two last exist only when the page shows them.
Construct(w, button, query) ==
    /\ pc = "idle"
    /\ button => (clear_button_rendered /\ w = widgets /\ query = None)
    /\ query # None =>
          (chat_input_rendered /\ w = widgets /\ UserTurns(messages) < MaxQueries)
    /\ widgets' = w
    /\ clear_pressed' = button
    /\ user_query' = query
    /\ clear_button_rendered' = has_messages
    /\ chat_input_rendered' = FALSE
    /\ messages' = ChatInterface_initialize_session(has_messages, messages, button)
    /\ has_messages' = TRUE
    /\ sql_agent' = NoAgent
    /\ run' = NoRun
    /\ pc' = "constructed"
    /\ UNCHANGED <<cache, next_id, engines, last_call, student_db,
                   remote_written, uncaught, fn_in, fn_out>>

\* _handle_chat up to the call of run_query: the chat input is shown, and a
\* submitted query is appended as the user turn
handle_chat(transcript, query) ==
    IF Truthy(query)
    THEN [messages |-> add_message(transcript, "user", query[1]), pc |-> "query"]
    ELSE [messages |-> transcript, pc |-> "idle"]

\* run() after _validate_inputs returned v, with init the result of
\* _initialize_components and chat that of _handle_chat's first half
RunValidated(cfg, v, init, chat) ==
    IF ~v.ok
    THEN /\ run' = [NoRun EXCEPT !.outcome = "invalid", !.shown = v.info,
                                 !.level = "info"]
         /\ pc' = "idle"
         /\ user_query' = None
         /\ UNCHANGED <<chat_input_rendered, messages, cache, next_id, engines,
                        last_call, sql_agent>>
    ELSE /\ init.opened # {} => next_id <= MaxConnects
         /\ cache' = init.cache
         /\ engines' = engines \cup init.opened
         /\ next_id' = IF init.opened # {} THEN next_id + 1 ELSE next_id
         /\ last_call' = IF init.value # NoHandle
                         THEN [key |-> CacheKey(cfg.db_type, cfg.credentials),
                               age |-> 0, handle |-> init.value]
                         ELSE last_call
         /\ IF init.raised # NoException
            THEN /\ run' = [outcome |-> "failed", shown |-> init.raised.msg,
                            level |-> "error", calls |-> init.calls,
                            event |-> init.event, opened |-> init.opened,
                            database |-> init.value]
                 /\ pc' = "idle"
                 /\ user_query' = None
                 /\ UNCHANGED <<chat_input_rendered, messages, sql_agent>>
            ELSE /\ run' = [outcome |-> "chat", shown |-> "", level |-> "",
                            calls |-> init.calls, event |-> init.event,
                            opened |-> init.opened, database |-> init.value]
                 /\ sql_agent' = init.sql_agent
                 /\ chat_input_rendered' = TRUE
                 /\ messages' = chat.messages
                 /\ pc' = chat.pc
                 /\ user_query' = IF chat.pc = "query" THEN user_query ELSE None

RunConfigured(cfg, conn_outcome, llm_outcome) ==
    RunValidated(cfg,
                 validate_inputs(widgets.api_key, cfg.credentials),
                 initialize_components(cache, cfg.db_type, cfg.credentials,
                                       widgets.api_key, conn_outcome, llm_outcome,
                                       next_id),
                 handle_chat(messages, user_query))

\* SQLChatApp.run: inputs, validation, components, chat.  It returns after an
\* info or error message, or goes on to the chat.
Run(conn_outcome, llm_outcome) ==
    /\ pc = "constructed"
    /\ RunConfigured(get_database_config(widgets.db_type_index, widgets.credentials),
                     conn_outcome, llm_outcome)
    /\ clear_pressed' = FALSE
    /\ UNCHANGED <<widgets, clear_button_rendered, has_messages, student_db,
                   remote_written, uncaught, fn_in, fn_out>>

\* the rest of _handle_chat: run_query and the assistant turn.  An exception
\* that run_query lets through ends the script before add_message.
RunQuery(exec_outcome) ==
    /\ pc = "query"
    /\ LET r == SQLAgent_run_query(sql_agent, user_query[1], exec_outcome)
       IN  /\ IF r.raised # NoException
              THEN /\ uncaught' = r.raised
                   /\ UNCHANGED messages
              ELSE /\ messages' = add_message(messages, "assistant", r.value)
                   /\ UNCHANGED uncaught
           /\ student_db' = IF r.wrote /\ sql_agent.database.dialect = "sqlite"
                            THEN "modified" ELSE student_db
           /\ remote_written' = (remote_written
                                 \/ (r.wrote /\ sql_agent.database.dialect # "sqlite"))
           /\ run' = [run EXCEPT !.outcome = exec_outcome]
    /\ pc' = "idle"
    /\ user_query' = None
    /\ UNCHANGED <<widgets, clear_button_rendered, chat_input_rendered, clear_pressed,
                   has_messages, cache, next_id, engines, last_call, sql_agent,
                   fn_in, fn_out>>

Older(age) == IF age < MaxAge THEN age + 1 ELSE MaxAge

\* half an hour passes between runs: every entry is half an hour older
Tick ==
    /\ pc = "idle"
    /\ cache' = [k \in DOMAIN cache |-> [cache[k] EXCEPT !.age = Older(@)]]
    /\ last_call' = [last_call EXCEPT !.age = Older(@)]
    /\ UNCHANGED <<widgets, clear_button_rendered, chat_input_rendered, clear_pressed,
                   user_query, pc, has_messages, messages, next_id, engines, run,
                   sql_agent, student_db, remote_written, uncaught, fn_in, fn_out>>

Next ==
    \/ \E w \in Widgets, button \in BOOLEAN, query \in {None} \cup {Some(q) : q \in Queries} :
          Construct(w, button, query)
    \/ \E conn_outcome \in ConnOutcomes, llm_outcome \in LlmOutcomes :
          Run(conn_outcome, llm_outcome)
    \/ \E exec_outcome \in ExecOutcomes : RunQuery(exec_outcome)
    \/ Tick

Spec == Init /\ [][Next]_vars

(***************************************************************************)
(* The sidebar and the cache: every backend and credential input, with an  *)
(* API key or none, time, no query.                                         *)
(***************************************************************************)
CacheWidgets == { w \in Widgets : w.api_key \in {<<>>, <<"g", "k">>} }

NextCache ==
    \/ \E w \in CacheWidgets, button \in BOOLEAN : Construct(w, button, None)
    \/ \E conn_outcome \in ConnOutcomes, llm_outcome \in LlmOutcomes :
          Run(conn_outcome, llm_outcome)
    \/ Tick

SpecCache == Init /\ [][NextCache]_vars

(***************************************************************************)
(* The chat: queries, over a sidebar that reaches every exit of run().      *)
(***************************************************************************)
ChatWidgets ==
    { w \in Widgets :
        \/ w.db_type_index = 0
        \/ /\ w.db_type_index = 1
           /\ w.api_key = <<"g", "k">>
           /\ w.credentials \in {BaseCredentials, [BaseCredentials EXCEPT !.password = ""]} }

NextChat ==
    \/ \E w \in ChatWidgets, button \in BOOLEAN,
           query \in {None} \cup {Some(q) : q \in Queries} :
          Construct(w, button, query)
    \/ \E conn_outcome \in ConnOutcomes, llm_outcome \in LlmOutcomes :
          Run(conn_outcome, llm_outcome)
    \/ \E exec_outcome \in ExecOutcomes : RunQuery(exec_outcome)

SpecChat == Init /\ [][NextChat]_vars

(***************************************************************************)
(* The exits of run(): the sidebar of the chat, time, and a query.          *)
(***************************************************************************)
NextFailure ==
    \/ \E w \in ChatWidgets, button \in BOOLEAN,
           query \in {None} \cup {Some(q) : q \in Queries} :
          /\ query # None => UserTurns(messages) < MaxFailureQueries
          /\ Construct(w, button, query)
    \/ \E conn_outcome \in ConnOutcomes, llm_outcome \in LlmOutcomes :
          Run(conn_outcome, llm_outcome)
    \/ \E exec_outcome \in ExecOutcomes : RunQuery(exec_outcome)
    \/ Tick

SpecFailure == Init /\ [][NextFailure]_vars

(***************************************************************************)
(* The factory called directly: DatabaseFactory.create_connection(db_type,  *)
(* **kwargs), then validate_credentials() and the target create_connection()*)
(* builds, for every keyword set.                                           *)
(***************************************************************************)
FieldValues == {"", "v", "h:6543"}

FactoryCalls ==
    { [db_type |-> t, kwargs |-> k] :
        t \in {LOCALDB, MYSQL, POSTGRES},
        k \in UNION { [D -> FieldValues] : D \in SUBSET Fields } }

Apply ==
    /\ ~fn_out.applied
    /\ LET connection == DatabaseFactory_create_connection(fn_in.db_type, fn_in.kwargs).value
       IN  fn_out' = [applied |-> TRUE,
                      valid |-> validate_credentials(connection),
                      target |-> create_connection(connection, "ok", 1).value.target]
    /\ UNCHANGED <<widgets, clear_button_rendered, chat_input_rendered, clear_pressed,
                   user_query, pc, has_messages, messages, cache, next_id,
                   engines, run, last_call, sql_agent, student_db, remote_written,
                   uncaught, fn_in>>

InitFactory ==
    /\ AppInit
    /\ fn_in \in FactoryCalls
    /\ fn_out = NoResult

NextFactory == Apply

SpecFactory == InitFactory /\ [][NextFactory]_vars

(***************************************************************************)
(* Claims.                                                                  *)
(***************************************************************************)
\* every required field present and a non-empty string, or the local backend
CredentialsComplete(db_type, credentials) ==
    \/ db_type = LOCALDB
    \/ \A f \in Fields : f \in DOMAIN credentials /\ credentials[f] # ""

WidgetKey ==
    CacheKey(get_database_config(widgets.db_type_index, widgets.credentials).db_type,
             get_database_config(widgets.db_type_index, widgets.credentials).credentials)

\* C1: the connection step runs, and a handle is returned or cached, only
\* after validate_credentials returned true for the same credentials; a run
\* with MySQL or Postgres selected and a credential field empty ends with a
\* validation message and no connection attempt.
C1_ValidateBeforeConnect ==
    /\ \A i \in 1..Len(run.calls) :
          run.calls[i] = "create_connection" =>
              \E j \in 1..(i - 1) : run.calls[j] = "validate_credentials=True"
    /\ \A k \in DOMAIN cache : CredentialsComplete(k[1], k[2])
    /\ run.database # NoHandle => CredentialsComplete(WidgetKey[1], WidgetKey[2])
    /\ run.opened # {} => CredentialsComplete(WidgetKey[1], WidgetKey[2])
    /\ (/\ run.outcome # ""
        /\ widgets.db_type_index \in {1, 2}
        /\ \E f \in Fields : widgets.credentials[f] = "")
       => /\ run.outcome = "invalid"
          /\ run.level = "info"
          /\ run.shown \in {InfoApiKey, InfoCredentials}
          /\ run.calls = <<>>
          /\ run.opened = {}
          /\ run.database = NoHandle

C1_Witness ==
    /\ widgets.db_type_index = 1
    /\ run.calls = <<"validate_credentials=True", "create_connection">>
    /\ run.database # NoHandle
    /\ WidgetKey \in DOMAIN cache

\* C2 as stated: two calls with the same key less than 2 hours apart return
\* the same handle, and a call more than 2 hours after the previous one returns
\* a new handle.
C2_TwoCallsApart ==
    [][(/\ pc = "constructed"
        /\ run'.database # NoHandle
        /\ last_call.handle # NoHandle
        /\ last_call'.key = last_call.key)
       => /\ last_call.age < TTL => run'.database = last_call.handle
          /\ last_call.age > TTL => run'.database # last_call.handle]_vars

\* C2, amended: a call made less than 2 hours after the handle of its key was
\* stored returns that handle without running the factory and leaves the cache
\* as it is; a call made more than 2 hours after it was stored runs the factory
\* again and, when that succeeds, returns and stores a new handle; the passing
\* of time alone changes no entry.
C2_TtlFromCreation ==
    [][/\ (pc = "constructed" /\ run'.event # "" /\ WidgetKey \in DOMAIN cache)
          => /\ cache[WidgetKey].age < TTL
                => /\ run'.event = "hit"
                   /\ run'.calls = <<>>
                   /\ run'.database = cache[WidgetKey].handle
                   /\ cache' = cache
                   /\ engines' = engines
             /\ cache[WidgetKey].age > TTL
                => /\ run'.event = "miss"
                   /\ run'.calls = <<"validate_credentials=True", "create_connection">>
                   /\ run'.database # NoHandle
                      => /\ run'.database.id \notin engines
                         /\ \A k \in DOMAIN cache : cache[k].handle # run'.database
                         /\ cache'[WidgetKey]
                               = [handle |-> run'.database, age |-> 0]
       /\ pc' = pc => /\ DOMAIN cache' = DOMAIN cache
                      /\ \A k \in DOMAIN cache : cache'[k].handle = cache[k].handle]_vars

C2_Witness ==
    /\ pc = "idle"
    /\ run.event = "hit"
    /\ WidgetKey \in DOMAIN cache
    /\ run.database = cache[WidgetKey].handle
    /\ cache[WidgetKey].age = TTL - 1
    /\ last_call.age = 0

ExecutorFailed ==
    \/ run.outcome \in {"agent_error", "run_error"}
    \/ run.outcome = "write" /\ run.database.read_only

ErrorTexts ==
    { "Error executing query: agent could not be created",
      "Error executing query: model request failed",
      "Error executing query: attempt to write a readonly database" }

\* C3: when the executor fails on a query (building the agent included), the
\* transcript gets an assistant turn with a non-empty error text, no exception
\* leaves the chat handler, and the page still offers the chat input; the
\* transcript stays a greeting followed by user/assistant pairs.
C3_ExecutorFailureIsATurn ==
    /\ uncaught = NoException
    /\ (pc = "idle" /\ ExecutorFailed)
       => /\ chat_input_rendered
          /\ Len(messages) >= 3
          /\ messages[Len(messages)].role = "assistant"
          /\ messages[Len(messages)].content # ""
          /\ messages[Len(messages)].content \in ErrorTexts
          /\ messages[Len(messages) - 1].role = "user"
    /\ \A i \in 1..Len(messages) :
          messages[i].role = IF i > 1 /\ i % 2 = 0 THEN "user" ELSE "assistant"
    /\ pc # "query" => Len(messages) % 2 = (IF has_messages THEN 1 ELSE 0)

C3_Witness ==
    /\ pc = "idle"
    /\ Len(messages) = 5
    /\ messages[3].content = "Error executing query: agent could not be created"
    /\ messages[5].content = "There are 6 students."
    /\ run.outcome = "answer"

C5_ClearAndAppendOnly ==
    [][/\ (pc = "idle" /\ pc' = "constructed" /\ clear_pressed')
          => messages' = <<Greeting>>
       /\ (has_messages /\ messages' # messages
           /\ ~(pc = "idle" /\ pc' = "constructed" /\ clear_pressed'))
          => /\ Len(messages') = Len(messages) + 1
             /\ SubSeq(messages', 1, Len(messages)) = messages]_vars

C5_Witness ==
    /\ pc = "constructed"
    /\ clear_pressed
    /\ messages = <<Greeting>>
    /\ widgets.api_key = <<>>
    /\ remote_written

\* C6: a run that ends in a failure (no API key, incomplete credentials, the
\* connection, the LLM) shows a message and returns; the transcript and every
\* cache entry that had not expired are as before; a failed connection
\* attempt stores nothing.
C6_FailureLeavesState ==
    [][(pc = "constructed" /\ run'.outcome \in {"invalid", "failed"})
       => /\ pc' = "idle"
          /\ run'.shown # ""
          /\ uncaught' = NoException
          /\ messages' = messages
          /\ \A k \in DOMAIN cache :
                /\ k \in DOMAIN cache'
                /\ cache[k].age < TTL => cache'[k] = cache[k]
          /\ run'.database = NoHandle => cache' = cache]_vars

C6_Witness ==
    /\ pc = "idle"
    /\ run.outcome = "failed"
    /\ run.database = NoHandle
    /\ run.calls # <<>>
    /\ Len(messages) >= 3
    /\ WidgetKey \in DOMAIN cache

\* C7: after a failed connect, no engine the call created remains open.
C7_FailedConnectClosesEngine ==
    (run.outcome = "failed" /\ run.database = NoHandle) => run.opened \cap engines = {}

\* C8: validate_credentials is true for the local backend whatever the
\* input, and for MySQL and Postgres exactly when host, user, password and
\* database are each present and a non-empty string.
C8_ValidateCredentials ==
    fn_out.applied =>
        (fn_out.valid <=> CredentialsComplete(fn_in.db_type, fn_in.kwargs))

C8_Witness ==
    /\ fn_out.applied
    /\ fn_in.db_type = MYSQL
    /\ DOMAIN fn_in.kwargs = Fields \ {"password"}
    /\ ~fn_out.valid

HasAllFields == DOMAIN fn_in.kwargs = Fields

UserInfo == fn_in.kwargs["user"] \o ":" \o fn_in.kwargs["password"] \o "@"

\* C10 as stated: the Postgres target is user:password@host:5432/database and
\* the MySQL target user:password@host/database.
C10_PostgresPort5432 ==
    (fn_out.applied /\ HasAllFields)
    => /\ fn_in.db_type = POSTGRES
          => fn_out.target = "postgresql+psycopg2://" \o UserInfo \o fn_in.kwargs["host"]
                                \o ":5432/" \o fn_in.kwargs["database"]
       /\ fn_in.db_type = MYSQL
          => fn_out.target = "mysql+mysqlconnector://" \o UserInfo \o fn_in.kwargs["host"]
                                \o "/" \o fn_in.kwargs["database"]

\* C10, amended: the Postgres target is user:password@host/database, as for
\* MySQL: the factory adds no port, the host field carries it.
C10_TargetWithoutPort ==
    (fn_out.applied /\ HasAllFields)
    => /\ fn_in.db_type = POSTGRES
          => fn_out.target = "postgresql+psycopg2://" \o UserInfo \o fn_in.kwargs["host"]
                                \o "/" \o fn_in.kwargs["database"]
       /\ fn_in.db_type = MYSQL
          => fn_out.target = "mysql+mysqlconnector://" \o UserInfo \o fn_in.kwargs["host"]
                                \o "/" \o fn_in.kwargs["database"]

C10_Witness ==
    /\ fn_out.applied
    /\ fn_in.db_type = POSTGRES
    /\ HasAllFields
    /\ fn_in.kwargs["host"] = "h:6543"
    /\ fn_out.target = "postgresql+psycopg2://v:v@h:6543/v"

\* C9: every handle of the local backend is read-only on the fixed dataset
\* file; a write attempted through it fails, and the dataset never changes.
C9_LocalReadOnly ==
    /\ student_db = "seeded"
    /\ \A k \in DOMAIN cache :
          k[1] = LOCALDB => /\ cache[k].handle.read_only
                            /\ cache[k].handle.target = DbFilePath
    /\ sql_agent.database.dialect = "sqlite" => sql_agent.database.read_only
    /\ (pc = "idle" /\ run.outcome = "write" /\ run.database.dialect = "sqlite")
       => messages[Len(messages)].content
             = "Error executing query: attempt to write a readonly database"

C9_Witness ==
    /\ pc = "idle"
    /\ run.outcome = "write"
    /\ run.database.dialect = "sqlite"
    /\ Len(messages) = 3

====
